---- MODULE Spec2Model ----
(***************************************************************************)
(* eclabfiles, src/eclabfiles/main.py: parse, to_df, to_csv, to_xlsx and   *)
(* the path helper _construct_path.                                        *)
(*                                                                         *)
(* A string is a sequence of symbols.  A symbol is "/" (os.sep), "."       *)
(* (os.extsep) or a run of other characters ("a", "mpt", "csv", a digit).  *)
(* os.path (posixpath) only ever looks for "/" and ".", so a run behaves   *)
(* as one character.                                                       *)
(***************************************************************************)
EXTENDS Integers, Sequences, FiniteSets, TLC

VARIABLES path, file, call, ret, writes, other_path, new_ext, derived

vars == <<path, file, call, ret, writes, other_path, new_ext, derived>>

(* Bounds of the model. *)
MaxTechniques == 3
MaxLong == 100
MaxPathLen == 4
MaxApply == 2

(* Python's None, as an argument value: a one-symbol value no path equals. *)
None == <<"<None>">>

(* bool(s) of an optional string: None and '' are falsy. *)
Truthy(s) == s # None /\ s # <<>>

Sep == "/"
ExtSep == "."

(***************************************************************************)
(* os.path                                                                 *)
(***************************************************************************)
(* str.rfind, 1-based; 0 when absent *)
rfind(s, c) ==
    LET hits == {i \in 1..Len(s) : s[i] = c}
    IN IF hits = {} THEN 0 ELSE CHOOSE i \in hits : \A j \in hits : j <= i

(* s.rstrip(c) *)
rstrip(s, c) ==
    LET keep == {i \in 1..Len(s) : s[i] # c}
        last == IF keep = {} THEN 0 ELSE CHOOSE i \in keep : \A j \in keep : j <= i
    IN SubSeq(s, 1, last)

(* posixpath.split: (head, tail); trailing slashes are stripped from head
   unless head is all slashes *)
split(p) ==
    LET i == rfind(p, Sep)
        head == SubSeq(p, 1, i)
        tail == SubSeq(p, i + 1, Len(p))
    IN <<IF head # <<>> /\ rstrip(head, Sep) # <<>> THEN rstrip(head, Sep) ELSE head,
         tail>>

(* genericpath._splitext: (root, ext); the extension starts at the last dot
   of the last component, leading dots of the component do not count *)
splitext(p) ==
    LET sepIndex == rfind(p, Sep)
        dotIndex == rfind(p, ExtSep)
    IN IF dotIndex > sepIndex
          /\ \E k \in (sepIndex + 1)..(dotIndex - 1) : p[k] # ExtSep
       THEN <<SubSeq(p, 1, dotIndex - 1), SubSeq(p, dotIndex, Len(p))>>
       ELSE <<p, <<>> >>

(* posixpath.join of two components *)
join(a, b) ==
    IF b # <<>> /\ b[1] = Sep THEN b
    ELSE IF a = <<>> \/ a[Len(a)] = Sep THEN a \o b
    ELSE a \o <<Sep>> \o b

(***************************************************************************)
(* _construct_path                                                         *)
(***************************************************************************)
construct_path_keep_ext(p, ext) ==
    LET head == split(p)[1]
        tail == split(p)[2]
    IN join(head, tail \o ext)

_construct_path(p, ext) ==
    LET head == split(p)[1]
        tail == splitext(split(p)[2])[1]
    IN join(head, tail \o ext)

(***************************************************************************)
(* f'{n:02d}': decimal digits, zero-padded to a minimum width of two       *)
(***************************************************************************)
Digit(d) ==
    CASE d = 0 -> "0" [] d = 1 -> "1" [] d = 2 -> "2" [] d = 3 -> "3"
      [] d = 4 -> "4" [] d = 5 -> "5" [] d = 6 -> "6" [] d = 7 -> "7"
      [] d = 8 -> "8" [] d = 9 -> "9"

RECURSIVE Decimal(_)
Decimal(n) == IF n < 10 THEN <<Digit(n)>> ELSE Append(Decimal(n \div 10), Digit(n % 10))

Format02d_nopad(n) == Decimal(n)

Format02d(n) ==
    IF Len(Decimal(n)) < 2 THEN <<"0">> \o Decimal(n) ELSE Decimal(n)

Str_csv == <<".", "csv">>
Str_xlsx == <<".", "xlsx">>
Str_mpt == <<".", "mpt">>
Str_mpr == <<".", "mpr">>
Str_mps == <<".", "mps">>

(* f'_{i+1:02d}.csv', with n = i + 1 for the loop index i *)
IndexedExt(n, ext) == <<"_">> \o Format02d(n) \o ext

(* _construct_path(csv_path, f'_{i+1:02d}.csv'): the spec's deriveIndexed *)
deriveIndexed(p, n, ext) == _construct_path(p, IndexedExt(n, ext))

(***************************************************************************)
(* _construct_path as a pure function: the inputs are drawn in InitPath,   *)
(* Derive applies the function to the path or to its own last result.      *)
(***************************************************************************)
PathSymbols == {"a", ExtSep, Sep}

PathStrings == UNION {[1..n -> PathSymbols] : n \in 0..MaxPathLen}

(* the extension arguments main.py passes: '.csv', '.xlsx', '_NN.csv' *)
ExtArguments == {Str_csv, Str_xlsx, IndexedExt(1, Str_csv)}

InitPath ==
    /\ other_path \in PathStrings
    /\ new_ext \in ExtArguments
    /\ derived = <<>>
    /\ path = <<>>
    /\ file = <<>>
    /\ call = <<>>
    /\ ret = <<>>
    /\ writes = <<>>

Derive ==
    /\ Len(derived) < MaxApply
    /\ derived' = Append(derived,
                         _construct_path(IF derived = <<>> THEN other_path
                                         ELSE derived[Len(derived)], new_ext))
    /\ UNCHANGED <<path, file, call, ret, writes, other_path, new_ext>>

NextPath == Derive

SpecPath == InitPath /\ [][NextPath]_vars

(***************************************************************************)
(* Parser collaborators (mpt.py, mpr.py, mps.py are imported, not part of  *)
(* main.py).  What a parser does with the file at `path` is the variable   *)
(* `file`: the result it returns, or the error it raises.                  *)
(***************************************************************************)
Return(v) == [status |-> "return", value |-> v]
Raise(e) == [status |-> "raise", exc |-> e]
ReturnTyped(t, v) == [status |-> "return", type |-> t, value |-> v]

(* rows of a file, in acquisition order *)
DatapointSeqs == {<<"r1", "r2">>, <<"r2", "r1">>}

(* parse_mpt: {'header': ..., 'datapoints': [...]} *)
TextResults == {[header |-> "meta", datapoints |-> d] : d \in DatapointSeqs}

(* parse_mpr: a list of modules {'header': ..., 'data': ...}; only the data
   module's 'data' holds 'datapoints' *)
SetModule == [header |-> "VMP Set", data |-> [params |-> "p"]]
LogModule == [header |-> "VMP LOG", data |-> [log |-> "l"]]
DataModule(d) == [header |-> "VMP data", data |-> [datapoints |-> d]]

BinaryResults ==
    {<<SetModule, DataModule(d)>> : d \in DatapointSeqs}
      \cup {<<SetModule, DataModule(d), LogModule>> : d \in DatapointSeqs}
      \cup {<<DataModule(<<"r2", "r1">>), SetModule>>,
            <<SetModule, LogModule, DataModule(<<"r2", "r1">>)>>,
            <<SetModule>>,
            <<DataModule(<<"r1", "r2">>)>>}

(* parse_mps(load_data=True): techniques in declared order; a technique has
   no 'data' key, or a 'data' mapping with keys among 'mpt' and 'mpr' *)
NestedText == [header |-> "meta", datapoints |-> <<"r1", "r2">>]
NestedBinary == <<SetModule, DataModule(<<"r2", "r1">>)>>
NestedBinaryDataFirst == <<DataModule(<<"r2", "r1">>), SetModule>>

TechniqueKinds ==
    { [technique |-> "OCV"],
      [technique |-> "OCV", data |-> <<>>],
      [technique |-> "CA", data |-> [mpt |-> NestedText]],
      [technique |-> "CA", data |-> [mpr |-> NestedBinary]],
      [technique |-> "CA", data |-> [mpt |-> NestedText, mpr |-> NestedBinary]],
      [technique |-> "CA", data |-> [mpr |-> NestedBinaryDataFirst]],
      [technique |-> "CA", data |-> [mpt |-> NestedText, mpr |-> NestedBinaryDataFirst]] }

(* every sequence of up to MaxTechniques techniques, and the sequences of up
   to MaxLong techniques that all hold the same text data *)
TechniqueSeqs ==
    UNION {[1..n -> TechniqueKinds] : n \in 0..MaxTechniques}
      \cup {[k \in 1..n |-> [technique |-> "CA", data |-> [mpt |-> NestedText]]] :
               n \in 0..MaxLong}

SettingsResults == {[settings |-> "s", techniques |-> ts] : ts \in TechniqueSeqs}

(* anything a parser raises on a malformed file *)
ParserErrors == {"AssertionError", "UnicodeDecodeError"}

SourcePaths ==
    { <<"a", ".", "mpt">>, <<"d", "/", "a", ".", "mpt">>,
      <<"a", ".", "mpr">>, <<"d", ".", "x", "/", "a", ".", "b", ".", "mpr">>,
      <<"d", "/", "a", ".", "b", ".", "mps">>,
      <<"a", ".", "MPT">>, <<"a", ".", "Mps">>, <<"a", ".", "txt">>,
      <<"a", ".", "mpr", ".", "bak">>, <<"a">>, <<"a", ".">>,
      <<".", "mps">>, <<"d", ".", "mpr", "/", "a">> }

(* what the parser chosen for path p may come back with *)
ParserOutcomes(p) ==
    LET ext == splitext(p)[2]
        results == IF ext = Str_mpt THEN TextResults
                   ELSE IF ext = Str_mpr THEN BinaryResults
                   ELSE IF ext = Str_mps THEN SettingsResults
                   ELSE {}
    IN IF results = {} THEN {[status |-> "unread"]}
       ELSE {Return(r) : r \in results} \cup {Raise(e) : e \in ParserErrors}

(* the parser's outcome for the file at p; parse calls parse_mps without
   load_data, to_df with load_data=True, and only to_df reads the data *)
parse_mpt(p, f) == f
parse_mpr(p, f) == f
parse_mps(p, f) == f

(* explicit output paths a caller passes; None is the default *)
ExplicitPaths == {<<"o", ".", "out">>, <<"e", "/", "o">>}

(***************************************************************************)
(* parse                                                                   *)
(***************************************************************************)
UnboundLocalError == "UnboundLocalError"
ValueError == "ValueError"

(* the parser `parse` hands the path to, if any *)
parse_handler(p) ==
    LET ext == splitext(p)[2]
    IN IF ext = Str_mpt THEN "parse_mpt"
       ELSE IF ext = Str_mpr THEN "parse_mpr"
       ELSE IF ext = Str_mps THEN "parse_mps"
       ELSE "none"

(* `return parsed` with no branch taken: the local is unbound *)
parse(p, f) ==
    LET handler == parse_handler(p)
        parsed == IF handler = "parse_mpt" THEN parse_mpt(p, f)
                  ELSE IF handler = "parse_mpr" THEN parse_mpr(p, f)
                  ELSE parse_mps(p, f)
    IN IF handler = "none" THEN Raise(UnboundLocalError)
       ELSE IF parsed.status = "raise" THEN parsed
       ELSE [status |-> "return", handler |-> handler, value |-> parsed.value]

(***************************************************************************)
(* to_df                                                                   *)
(***************************************************************************)
(* pd.DataFrame.from_dict(records): one row per record, in order *)
DataFrame_from_dict(records) == [rows |-> records]

(* seq[i] with Python's 0-based index *)
HasIndex(seq, i) == i + 1 \in 1..Len(seq)
At(seq, i) == seq[i + 1]

mpr_records_first_module(mpr) ==
    IF ~HasIndex(mpr, 0) THEN Raise("IndexError")
    ELSE IF "datapoints" \notin DOMAIN At(mpr, 0).data THEN Raise("KeyError")
    ELSE Return(At(mpr, 0).data.datapoints)

(* mpr[1]['data']['datapoints'] *)
mpr_records(mpr) ==
    IF ~HasIndex(mpr, 1) THEN Raise("IndexError")
    ELSE IF "datapoints" \notin DOMAIN At(mpr, 1).data THEN Raise("KeyError")
    ELSE Return(At(mpr, 1).data.datapoints)

(* one pass of the loop body over a technique: the tables appended to df,
   or the error raised *)
technique_tables_prefer_mpr(technique) ==
    IF "data" \notin DOMAIN technique THEN Return(<<>>)
    ELSE LET data == technique.data
         IN IF "mpr" \in DOMAIN data
            THEN LET r == mpr_records(data.mpr)
                 IN IF r.status = "raise" THEN r
                    ELSE Return(<<DataFrame_from_dict(r.value)>>)
            ELSE IF "mpt" \in DOMAIN data
            THEN Return(<<DataFrame_from_dict(data.mpt.datapoints)>>)
            ELSE Return(<<>>)

technique_tables(technique) ==
    IF "data" \notin DOMAIN technique THEN Return(<<>>)
    ELSE LET data == technique.data
         IN IF "mpt" \in DOMAIN data
            THEN Return(<<DataFrame_from_dict(data.mpt.datapoints)>>)
            ELSE IF "mpr" \in DOMAIN data
            THEN LET r == mpr_records(data.mpr)
                 IN IF r.status = "raise" THEN r
                    ELSE Return(<<DataFrame_from_dict(r.value)>>)
            ELSE Return(<<>>)

(* for technique in mps['techniques']: ... df.append(...): the tables the
   techniques append, in technique order; the first error raised ends the
   loop and the call *)
mps_tables(techniques) ==
    LET n == Len(techniques)
        r == [k \in 1..n |-> technique_tables(techniques[k])]
        raising == {k \in 1..n : r[k].status = "raise"}
        appending == SelectSeq([k \in 1..n |-> k], LAMBDA k : r[k].value # <<>>)
    IN IF raising # {}
       THEN r[CHOOSE k \in raising : \A j \in raising : k <= j]
       ELSE ReturnTyped("list", [k \in 1..Len(appending) |-> r[appending[k]].value[1]])

(* else: raise ValueError(f"Unrecognized file extension: {ext}") *)
to_df_no_else(p, f) ==
    LET ext == splitext(p)[2]
    IN IF ext = Str_mpt
       THEN LET mpt == parse_mpt(p, f)
            IN IF mpt.status = "raise" THEN mpt
               ELSE ReturnTyped("DataFrame", DataFrame_from_dict(mpt.value.datapoints))
       ELSE IF ext = Str_mpr
       THEN LET mpr == parse_mpr(p, f)
                mpr_recs == mpr_records(mpr.value)
            IN IF mpr.status = "raise" THEN mpr
               ELSE IF mpr_recs.status = "raise" THEN mpr_recs
               ELSE ReturnTyped("DataFrame", DataFrame_from_dict(mpr_recs.value))
       ELSE IF ext = Str_mps
       THEN LET mps == parse_mps(p, f)
            IN IF mps.status = "raise" THEN mps
               ELSE mps_tables(mps.value.techniques)
       ELSE ReturnTyped("list", <<>>)

to_df(p, f) ==
    LET ext == splitext(p)[2]
    IN IF ext = Str_mpt
       THEN LET mpt == parse_mpt(p, f)
            IN IF mpt.status = "raise" THEN mpt
               ELSE ReturnTyped("DataFrame", DataFrame_from_dict(mpt.value.datapoints))
       ELSE IF ext = Str_mpr
       THEN LET mpr == parse_mpr(p, f)
                mpr_recs == mpr_records(mpr.value)
            IN IF mpr.status = "raise" THEN mpr
               ELSE IF mpr_recs.status = "raise" THEN mpr_recs
               ELSE ReturnTyped("DataFrame", DataFrame_from_dict(mpr_recs.value))
       ELSE IF ext = Str_mps
       THEN LET mps == parse_mps(p, f)
            IN IF mps.status = "raise" THEN mps
               ELSE mps_tables(mps.value.techniques)
       ELSE Raise(ValueError)

(***************************************************************************)
(* to_csv, to_xlsx: the result of the call and the files it writes, in the *)
(* order it writes them                                                    *)
(***************************************************************************)
(* df.to_csv(target, float_format='%.15f', index=False) *)
DataFrame_to_csv(df, target) ==
    [fn |-> "to_csv", path |-> target, df |-> df,
     float_format |-> "%.15f", index |-> FALSE]

(* df.to_excel(target, index=False) *)
DataFrame_to_excel(df, target) ==
    [fn |-> "to_excel", path |-> target, df |-> df, index |-> FALSE]

(* df.to_excel(writer, sheet_name=f'{i+1:02d}', index=False) *)
excel_sheet_zero_based(i, df) == [sheet_name |-> Format02d(i), df |-> df, index |-> FALSE]

excel_sheet(i, df) == [sheet_name |-> Format02d(i + 1), df |-> df, index |-> FALSE]

(* with pd.ExcelWriter(target) as writer: one to_excel per table *)
ExcelWriter(target, dfs) ==
    [fn |-> "ExcelWriter", path |-> target,
     sheets |-> [k \in 1..Len(dfs) |-> excel_sheet(k - 1, dfs[k])]]

(* for i, df in enumerate(df): the body's writes for the 0-based index i *)
csv_loop_body_source_only_if_no_explicit(i, df, p, csv_path) ==
    IF Truthy(csv_path)
    THEN <<DataFrame_to_csv(df, deriveIndexed(csv_path, i + 1, Str_csv))>>
    ELSE <<DataFrame_to_csv(df, deriveIndexed(p, i + 1, Str_csv))>>

csv_loop_body(i, df, p, csv_path) ==
    (IF Truthy(csv_path)
     THEN <<DataFrame_to_csv(df, deriveIndexed(csv_path, i + 1, Str_csv))>>
     ELSE <<>>)
    \o <<DataFrame_to_csv(df, deriveIndexed(p, i + 1, Str_csv))>>

(* the bodies' writes one after the other, for i = 0 .. len(df) - 1 *)
csv_loop(dfs, p, csv_path) ==
    LET per == IF dfs = <<>> THEN 1 ELSE Len(csv_loop_body(0, dfs[1], p, csv_path))
    IN [j \in 1..(per * Len(dfs)) |->
           csv_loop_body((j - 1) \div per, dfs[((j - 1) \div per) + 1], p, csv_path)
               [((j - 1) % per) + 1]]

(* if csv_path is None: csv_path = _construct_path(path, '.csv') *)
csv_target_always_derived(p, csv_path) == _construct_path(p, Str_csv)

csv_target(p, csv_path) ==
    IF csv_path = None THEN _construct_path(p, Str_csv) ELSE csv_path

to_csv(p, csv_path, f) ==
    LET df == to_df(p, f)
    IN IF df.status = "raise" THEN [ret |-> df, writes |-> <<>>]
       ELSE IF df.type = "DataFrame"
       THEN [ret |-> Return(None),
             writes |-> <<DataFrame_to_csv(df.value, csv_target(p, csv_path))>>]
       ELSE [ret |-> Return(None), writes |-> csv_loop(df.value, p, csv_path)]

(* if xlsx_path is None: xlsx_path = _construct_path(path, '.xlsx') *)
xlsx_target(p, xlsx_path) ==
    IF xlsx_path = None THEN _construct_path(p, Str_xlsx) ELSE xlsx_path

to_xlsx_open_writer_first(p, xlsx_path, f) ==
    LET df == to_df(p, f)
        target == xlsx_target(p, xlsx_path)
    IN IF df.status = "raise" THEN [ret |-> df, writes |-> <<ExcelWriter(target, <<>>)>>]
       ELSE IF df.type = "DataFrame"
       THEN [ret |-> Return(None), writes |-> <<DataFrame_to_excel(df.value, target)>>]
       ELSE [ret |-> Return(None), writes |-> <<ExcelWriter(target, df.value)>>]

to_xlsx(p, xlsx_path, f) ==
    LET df == to_df(p, f)
        target == xlsx_target(p, xlsx_path)
    IN IF df.status = "raise" THEN [ret |-> df, writes |-> <<>>]
       ELSE IF df.type = "DataFrame"
       THEN [ret |-> Return(None), writes |-> <<DataFrame_to_excel(df.value, target)>>]
       ELSE [ret |-> Return(None), writes |-> <<ExcelWriter(target, df.value)>>]

(***************************************************************************)
(* The program: a file at `path`, and calls on it.                         *)
(***************************************************************************)
Init ==
    /\ path \in SourcePaths
    /\ file \in ParserOutcomes(path)
    /\ call = [fn |-> "none", out_path |-> None, via |-> "none"]
    /\ ret = [status |-> "none"]
    /\ writes = <<>>
    /\ other_path = <<>>
    /\ new_ext = <<>>
    /\ derived = <<>>

Parse ==
    /\ call' = [fn |-> "parse", out_path |-> None, via |-> "api"]
    /\ ret' = parse(path, file)
    /\ writes' = <<>>
    /\ UNCHANGED <<path, file, other_path, new_ext, derived>>

ToDf ==
    /\ call' = [fn |-> "to_df", out_path |-> None, via |-> "api"]
    /\ ret' = to_df(path, file)
    /\ writes' = <<>>
    /\ UNCHANGED <<path, file, other_path, new_ext, derived>>

ToCsv ==
    \E csv_path \in ExplicitPaths \cup {None} :
        /\ call' = [fn |-> "to_csv", out_path |-> csv_path, via |-> "api"]
        /\ ret' = to_csv(path, csv_path, file).ret
        /\ writes' = to_csv(path, csv_path, file).writes
        /\ UNCHANGED <<path, file, other_path, new_ext, derived>>

ToXlsx ==
    \E xlsx_path \in ExplicitPaths \cup {None} :
        /\ call' = [fn |-> "to_xlsx", out_path |-> xlsx_path, via |-> "api"]
        /\ ret' = to_xlsx(path, xlsx_path, file).ret
        /\ writes' = to_xlsx(path, xlsx_path, file).writes
        /\ UNCHANGED <<path, file, other_path, new_ext, derived>>

(* _run: to_csv(args.file) or to_xlsx(args.file), by args.format *)
Run ==
    \E format \in {"csv", "xlsx"} :
        LET r == IF format = "csv" THEN to_csv(path, None, file)
                 ELSE to_xlsx(path, None, file)
        IN /\ call' = [fn |-> IF format = "csv" THEN "to_csv" ELSE "to_xlsx",
                       out_path |-> None, via |-> "_run"]
           /\ ret' = r.ret
           /\ writes' = r.writes
           /\ UNCHANGED <<path, file, other_path, new_ext, derived>>

Next == Parse \/ ToDf \/ ToCsv \/ ToXlsx \/ Run

Spec == Init /\ [][Next]_vars

(***************************************************************************)
(* Vocabulary of the properties                                            *)
(***************************************************************************)
Ext(p) == splitext(p)[2]
Recognised == {Str_mpt, Str_mpr, Str_mps}

IsBinaryInput == Ext(path) = Str_mpr /\ file.status = "return"
IsSettingsInput == Ext(path) = Str_mps /\ file.status = "return"

HasEntry(t, key) == "data" \in DOMAIN t /\ key \in DOMAIN t.data
HasText(t) == HasEntry(t, "mpt")
HasBinaryOnly(t) == HasEntry(t, "mpr") /\ ~HasEntry(t, "mpt")

(* the techniques that hold a text or a binary entry *)
Selected(ts) == {i \in 1..Len(ts) : HasText(ts[i]) \/ HasBinaryOnly(ts[i])}

(* the position, among the techniques of S, of technique i *)
Rank(S, i) == Cardinality({j \in S : j <= i})

(* the data module of a module sequence, wherever it is *)
DataModules(mpr) == {k \in 1..Len(mpr) : mpr[k].header = "VMP data"}
DataModuleRows(mpr) == mpr[CHOOSE k \in DataModules(mpr) : TRUE].data.datapoints

(* the data module is the second module (Python index 1) *)
DataIsSecond(mpr) == Len(mpr) >= 2 /\ mpr[2].header = "VMP data"

Table(rows) == [rows |-> rows]

(* the Table of a selected technique: built from the binary entry's data
   module wherever it is, and built from its second module *)
TableByDataModule(t) ==
    IF HasText(t) THEN Table(t.data.mpt.datapoints)
    ELSE Table(DataModuleRows(t.data.mpr))

TableBySecondModule(t) ==
    IF HasText(t) THEN Table(t.data.mpt.datapoints)
    ELSE Table(t.data.mpr[2].data.datapoints)

Unreadable(ts) == {i \in Selected(ts) : HasBinaryOnly(ts[i]) /\ ~DataIsSecond(ts[i].data.mpr)}

Digits == {Digit(d) : d \in 0..9}
IsDigits(s) == \A k \in 1..Len(s) : s[k] \in Digits
DigitValue(c) == CHOOSE d \in 0..9 : Digit(d) = c

RECURSIVE DecimalValue(_)
DecimalValue(s) ==
    IF s = <<>> THEN 0
    ELSE 10 * DecimalValue(SubSeq(s, 1, Len(s) - 1)) + DigitValue(s[Len(s)])

(* s renders n with exactly two digits *)
TwoDigitsOf(s, n) == IsDigits(s) /\ Len(s) = 2 /\ DecimalValue(s) = n

(* s renders n in decimal, zero-padded to two digits when n < 10 *)
PaddedDecimalOf(s, n) ==
    /\ IsDigits(s)
    /\ DecimalValue(s) = n
    /\ Len(s) >= 2
    /\ (n <= 99 => Len(s) = 2)
    /\ (Len(s) > 2 => s[1] # "0")

Extracted == to_df(path, file)

(***************************************************************************)
(* C1.  For a Settings input, to_df returns exactly one Table per          *)
(* technique that has data, in technique order and with no empty slots:    *)
(* no data contributes nothing, a text entry yields the text Table even    *)
(* beside a binary entry, a binary entry alone yields the Table of that    *)
(* binary entry's data module.                                             *)
(***************************************************************************)
C1_Original ==
    (call.fn = "to_df" /\ IsSettingsInput) =>
        LET ts == file.value.techniques
            sel == Selected(ts)
        IN /\ ret.status = "return"
           /\ ret.type = "list"
           /\ Len(ret.value) = Cardinality(sel)
           /\ \A i \in sel : ret.value[Rank(sel, i)] = TableByDataModule(ts[i])

(* C1 as amended: the binary entry's Table is built from its second module;
   when a selected binary entry has no datapoints there, to_df raises a
   lookup error and returns no Tables *)
C1_Amended ==
    (call.fn = "to_df" /\ IsSettingsInput) =>
        LET ts == file.value.techniques
            sel == Selected(ts)
        IN IF Unreadable(ts) = {}
           THEN /\ ret.status = "return"
                /\ ret.type = "list"
                /\ Len(ret.value) = Cardinality(sel)
                /\ \A i \in sel : ret.value[Rank(sel, i)] = TableBySecondModule(ts[i])
           ELSE /\ ret.status = "raise"
                /\ ret.exc \in {"KeyError", "IndexError"}

C1_Witness ==
    /\ call.fn = "to_df"
    /\ IsSettingsInput
    /\ file.value.techniques =
           << [technique |-> "OCV"],
              [technique |-> "CA", data |-> [mpt |-> NestedText, mpr |-> NestedBinary]],
              [technique |-> "CA", data |-> [mpr |-> NestedBinary]] >>
    /\ ret.status = "return"
    /\ ret.value = <<Table(<<"r1", "r2">>), Table(<<"r2", "r1">>)>>

(***************************************************************************)
(* C2.  For a path whose extension is none of .mpt, .mpr, .mps, to_df      *)
(* raises ValueError (UnsupportedFormatError) and returns no Table, and    *)
(* to_csv and to_xlsx write no file.                                       *)
(***************************************************************************)
C2_UnsupportedFormat ==
    (call.fn \in {"to_df", "to_csv", "to_xlsx"} /\ Ext(path) \notin Recognised) =>
        /\ ret.status = "raise"
        /\ ret.exc = ValueError
        /\ writes = <<>>

C2_Witness ==
    /\ call.fn = "to_xlsx"
    /\ path = <<"a", ".", "MPT">>
    /\ ret.status = "raise"
    /\ ret.exc = ValueError
    /\ writes = <<>>

(***************************************************************************)
(* C3.  parse selects its handler by the extension alone, case-sensitive:  *)
(* parse_mpt for .mpt, parse_mpr for .mpr, parse_mps for .mps, and for     *)
(* every other extension it fails with UnsupportedFormatError (ValueError) *)
(* rather than returning or failing in another way.                        *)
(***************************************************************************)
C3_Original ==
    call.fn = "parse" =>
        /\ (Ext(path) = Str_mpt /\ file.status = "return") =>
               (ret.status = "return" /\ ret.handler = "parse_mpt")
        /\ (Ext(path) = Str_mpr /\ file.status = "return") =>
               (ret.status = "return" /\ ret.handler = "parse_mpr")
        /\ (Ext(path) = Str_mps /\ file.status = "return") =>
               (ret.status = "return" /\ ret.handler = "parse_mps")
        /\ Ext(path) \notin Recognised =>
               (ret.status = "raise" /\ ret.exc = ValueError)

C5_SingleTarget ==
    /\ (call.fn = "to_csv" /\ ret.status = "return" /\ Extracted.type = "DataFrame") =>
           /\ Len(writes) = 1
           /\ writes[1].fn = "to_csv"
           /\ writes[1].df = Extracted.value
           /\ writes[1].path = (IF call.out_path # None THEN call.out_path
                                ELSE _construct_path(path, Str_csv))
    /\ (call.fn = "to_xlsx" /\ ret.status = "return") =>
           /\ Len(writes) = 1
           /\ writes[1].fn = (IF Extracted.type = "DataFrame" THEN "to_excel"
                              ELSE "ExcelWriter")
           /\ Extracted.type = "DataFrame" => writes[1].df = Extracted.value
           /\ writes[1].path = (IF call.out_path # None THEN call.out_path
                                ELSE _construct_path(path, Str_xlsx))

C5_Witness ==
    /\ call.fn = "to_csv"
    /\ call.out_path = <<"o", ".", "out">>
    /\ IsBinaryInput
    /\ ret.status = "return"
    /\ Len(writes) = 1
    /\ writes[1].path = <<"o", ".", "out">>

(***************************************************************************)
(* C6.  to_xlsx on N Tables produces one workbook with exactly N sheets,   *)
(* sheet k holding Table k and named with the zero-padded two-digit        *)
(* 1-based index k, in Table order; the numbering follows the position in  *)
(* the extracted sequence, not the technique's place in the settings file. *)
(***************************************************************************)
SheetsFollowTables(NameOf(_, _)) ==
    (call.fn = "to_xlsx" /\ ret.status = "return" /\ Extracted.type = "list") =>
        \A dfs \in {Extracted.value} :
        \A ts \in {file.value.techniques} :
        \A sel \in {Selected(ts)} :
            /\ Len(writes) = 1
            /\ writes[1].fn = "ExcelWriter"
            /\ Len(writes[1].sheets) = Len(dfs)
            /\ Len(dfs) = Cardinality(sel)
            /\ \A k \in 1..Len(dfs) :
                   /\ writes[1].sheets[k].df = dfs[k]
                   /\ NameOf(writes[1].sheets[k].sheet_name, k)
            /\ \A i \in sel :
                   writes[1].sheets[Rank(sel, i)].df = TableBySecondModule(ts[i])

(* C6 as stated: every sheet name has exactly two digits *)
C6_Original == SheetsFollowTables(TwoDigitsOf)

(* C6 as amended: the name is the index in decimal, zero-padded to two
   digits; from the 100th sheet on it has more than two digits *)
C6_Amended == SheetsFollowTables(PaddedDecimalOf)

C6_Witness ==
    /\ call.fn = "to_xlsx"
    /\ IsSettingsInput
    /\ file.value.techniques =
           << [technique |-> "CA", data |-> [mpt |-> NestedText]],
              [technique |-> "OCV"],
              [technique |-> "CA", data |-> [mpr |-> NestedBinary]] >>
    /\ ret.status = "return"
    /\ Len(writes[1].sheets) = 2
    /\ writes[1].sheets[1].sheet_name = <<"0", "1">>
    /\ writes[1].sheets[2].sheet_name = <<"0", "2">>
    /\ writes[1].sheets[2].df = Table(<<"r2", "r1">>)

(***************************************************************************)
(* C7.  The indexed path has the index as _NN immediately before the new   *)
(* extension; over an extracted sequence the indices start at 1, follow    *)
(* the order of the Tables, increase strictly, and every one is rendered   *)
(* with exactly two digits (file names of to_csv, sheet names of to_xlsx). *)
(***************************************************************************)
(* the path without its extension *)
StripExt(p) == _construct_path(p, <<>>)

(* w is base without its extension, then "_", then an index string that
   renders i, then ".csv" *)
IndexedName(w, base, i, Renders(_, _)) ==
    \A stem \in {StripExt(base)} :
        /\ Len(w) >= Len(stem) + 3
        /\ SubSeq(w, 1, Len(stem)) = stem
        /\ w[Len(stem) + 1] = "_"
        /\ SubSeq(w, Len(w) - 1, Len(w)) = Str_csv
        /\ Renders(SubSeq(w, Len(stem) + 2, Len(w) - 2), i)

IndexRendering(Renders(_, _)) ==
    /\ (call.fn = "to_csv" /\ ret.status = "return" /\ Extracted.type = "list") =>
           LET given == call.out_path # None
               per == IF given THEN 2 ELSE 1
           IN \A k \in 1..Len(writes) :
                  IndexedName(writes[k].path,
                              IF given /\ k % 2 = 1 THEN call.out_path ELSE path,
                              ((k - 1) \div per) + 1, Renders)
    /\ (call.fn = "to_xlsx" /\ ret.status = "return" /\ Extracted.type = "list") =>
           \A k \in 1..Len(writes[1].sheets) :
               Renders(writes[1].sheets[k].sheet_name, k)

(* C7 as stated: every index is rendered with exactly two digits *)
C7_Original == IndexRendering(TwoDigitsOf)

(* C7 as amended: two digits for the positions 1 to 99; from position 100
   on the index is rendered with all its digits, more than two *)
C7_Amended == IndexRendering(PaddedDecimalOf)

C7_Witness ==
    /\ call.fn = "to_csv"
    /\ call.out_path = None
    /\ IsSettingsInput
    /\ ret.status = "return"
    /\ Len(writes) = 12
    /\ writes[1].path = <<"d", "/", "a", ".", "b", "_", "0", "1", ".", "csv">>
    /\ writes[9].path = <<"d", "/", "a", ".", "b", "_", "0", "9", ".", "csv">>
    /\ writes[10].path = <<"d", "/", "a", ".", "b", "_", "1", "0", ".", "csv">>
    /\ writes[12].path = <<"d", "/", "a", ".", "b", "_", "1", "2", ".", "csv">>

(***************************************************************************)
(* C8.  _construct_path strips the extension of the path's file name and   *)
(* appends the new one, leaving the directory part unchanged; applied with *)
(* the same extension to its own result it returns that result again.      *)
(* (SpecPath)                                                              *)
(***************************************************************************)
FileName(p) == split(p)[2]
Directory(p) == split(p)[1]

(* the file name has a character other than a dot *)
NamesFile(p) == \E k \in 1..Len(FileName(p)) : FileName(p)[k] # ExtSep

(* a dot followed by characters that hold neither a dot nor a separator *)
PlainExtension(e) == Len(e) = 2 /\ e[1] = ExtSep /\ e[2] \notin {ExtSep, Sep}

StripsAndAppends ==
    derived # <<>> =>
        /\ Directory(derived[1]) = Directory(other_path)
        /\ LET name == FileName(other_path)
               dot == rfind(name, ExtSep)
               stem == IF dot > 1 /\ NamesFile(SubSeq(name, 1, dot - 1))
                       THEN SubSeq(name, 1, dot - 1) ELSE name
           IN FileName(derived[1]) = stem \o new_ext

(* C8 as stated: a second application always returns the first result *)
C8_Original ==
    /\ StripsAndAppends
    /\ \A k \in 2..Len(derived) : derived[k] = derived[1]

(* C8 as amended: the second application returns the first result when the
   extension is a plain one ('.csv', '.xlsx') and the file name has a
   character other than a dot *)
C8_Amended ==
    /\ StripsAndAppends
    /\ (PlainExtension(new_ext) /\ NamesFile(other_path)) =>
           \A k \in 2..Len(derived) : derived[k] = derived[1]

C8_Witness ==
    /\ other_path = <<"a", "/", "a", ".">>
    /\ new_ext = Str_xlsx
    /\ Len(derived) = 2
    /\ derived[1] = <<"a", "/", "a", ".", "xlsx">>
    /\ derived[2] = derived[1]

(***************************************************************************)
(* C9.  For a Binary input (an .mpr file, or a technique's binary entry)   *)
(* to_df builds exactly one Table from the datapoints of the data module,  *)
(* whatever position that module has in the module sequence, preserving    *)
(* the row order.                                                          *)
(***************************************************************************)
BinaryTables(Readable(_), Rows(_)) ==
    /\ (call.fn = "to_df" /\ IsBinaryInput /\ Readable(file.value)) =>
           /\ ret.status = "return"
           /\ ret.type = "DataFrame"
           /\ ret.value = Table(Rows(file.value))
    /\ (call.fn = "to_df" /\ IsSettingsInput) =>
           \A ts \in {file.value.techniques} :
           \A sel \in {Selected(ts)} :
           \A i \in sel :
               (HasBinaryOnly(ts[i]) /\ Readable(ts[i].data.mpr)) =>
                   /\ ret.status = "return"
                   /\ ret.value[Rank(sel, i)] = Table(Rows(ts[i].data.mpr))

HasDataModule(mpr) == DataModules(mpr) # {}
SecondModuleRows(mpr) == mpr[2].data.datapoints

(* C9 as stated: the Table comes from the data module wherever it is *)
C9_Original == BinaryTables(HasDataModule, DataModuleRows)

(* C9 as amended: the Table is built from the datapoints of the second
   module, which is where the data module has to be; with fewer than two
   modules to_df raises IndexError, with a second module that holds no
   datapoints KeyError, and builds no Table *)
C9_Amended ==
    /\ (call.fn = "to_df" /\ IsBinaryInput) =>
           IF DataIsSecond(file.value)
           THEN /\ ret.status = "return"
                /\ ret.type = "DataFrame"
                /\ ret.value = Table(SecondModuleRows(file.value))
           ELSE /\ ret.status = "raise"
                /\ ret.exc = (IF Len(file.value) < 2 THEN "IndexError" ELSE "KeyError")
    /\ (call.fn = "to_df" /\ IsSettingsInput) =>
           \A ts \in {file.value.techniques} :
           \A sel \in {Selected(ts)} :
               /\ Unreadable(ts) # {} => ret.status = "raise"
               /\ Unreadable(ts) = {} =>
                      \A i \in sel :
                          HasBinaryOnly(ts[i]) =>
                              /\ ret.status = "return"
                              /\ ret.value[Rank(sel, i)]
                                     = Table(SecondModuleRows(ts[i].data.mpr))

C9_Witness ==
    /\ call.fn = "to_df"
    /\ IsBinaryInput
    /\ file.value = <<SetModule, DataModule(<<"r2", "r1">>), LogModule>>
    /\ ret.status = "return"
    /\ ret.value = Table(<<"r2", "r1">>)

(***************************************************************************)
(* C10.  In to_csv and to_xlsx the extraction of all Tables is over before *)
(* the first output file is opened: when a parser raises, that same error  *)
(* reaches the caller unmodified and the call has written no file.         *)
(***************************************************************************)
C10_ExtractionFirst ==
    call.fn \in {"to_csv", "to_xlsx"} =>
        /\ (Ext(path) \in Recognised /\ file.status = "raise") =>
               (ret = file /\ writes = <<>>)
        /\ ret.status = "raise" => writes = <<>>

C10_Witness ==
    /\ call.fn = "to_xlsx"
    /\ call.out_path = <<"o", ".", "out">>
    /\ Ext(path) = Str_mps
    /\ file = Raise("UnicodeDecodeError")
    /\ ret = Raise("UnicodeDecodeError")
    /\ writes = <<>>

====
